---- MODULE Spec2Model ----
(***************************************************************************)
(* Order-payment reconciliation of the e-commerce backend: the payment     *)
(* controller (initializePayment, verifyPayment, handleWebhook and its two *)
(* charge handlers), the Paystack service it calls, the Payment schema and *)
(* the order controller's updateOrderToPaid.                               *)
(*                                                                         *)
(* Every request is an async handler: it runs from one await to the next   *)
(* without interruption, and other requests run between its awaits. One    *)
(* action of the model is one such stretch: the database operation or the  *)
(* gateway call the handler awaits, followed by the synchronous code up to *)
(* the next await. A document is loaded into the request's memory, changed *)
(* there and written back by save(), which writes only the paths whose     *)
(* value differs from the loaded one (Mongoose's modified paths).          *)
(***************************************************************************)
EXTENDS Naturals, Integers, Sequences, FiniteSets, TLC

VARIABLES
    orders,      \* Order collection: order id -> document
    payments,    \* Payment collection, in insertion order
    now,         \* ticks of the server clock read by Date.now()
    proc,        \* the requests in flight: slot -> handler position and locals
    last,        \* the response of the request that completed last
    budget,      \* number of requests that can still be received
    race,        \* the race of a poll and a notification (SpecRace)
    stock,       \* Product collection: product id -> product.stock
    env          \* process.env.NODE_ENV of the server

vars == <<orders, payments, now, proc, last, budget, race, stock, env>>

----------------------------------------------------------------------------
(* Bounds of the model *)

\* the clock stops ticking after MaxTime ticks
MaxTime == 1
\* no request is received after MaxRequests requests
MaxRequests == 3

----------------------------------------------------------------------------
(* Values *)

None == <<>>
Some(v) == <<v>>
Val(x) == x[1]

Users == {"u1", "u2"}
OrderIds == {"o1"}
Slots == {1, 2}

\* the administrator (req.user.role === 'admin')
Admin == "admin"

\* the products, and a product id that matches no product
Products == {"p1", "p2"}
MissingProduct == "p9"

\* an order id / a reference that matches no document
MissingOrder == "o9"
UnknownRef == <<"ORDER", "o9", 0>>

\* the user of each order (Order.create, user: req.user._id)
OrderUser(o) == IF o = "o1" THEN "u1" ELSE "u2"
\* order.totalPrice
TotalPrice(o) == IF o = "o1" THEN 5000 ELSE 1250

\* a line item of an order
Item(product, quantity) == [product |-> product, quantity |-> quantity]

\* order.orderItems of the orders placed before the server started
ItemsOf(o) == <<Item("p1", 1), Item("p2", 1)>>

\* product.stock at the start, after those orders were placed
StockAtStart == [prod \in Products |-> IF prod = "p1" THEN 2 ELSE 1]

\* the status of an order (Order schema, status enum)
OrderStatusEnum == {"pending", "processing", "shipped", "delivered", "cancelled"}

\* Date.now() when the clock shows tick t
DateNow(t) == 19725 + t

\* new Date(data.paid_at): the ISO string parsed to a time value (days)
NewDate(s) ==
    CASE s = "2024-01-01T00:00:00Z" -> 19723
      [] s = "2024-01-02T00:00:00Z" -> 19724

\* new Date(data.paid_at) of a charge; a charge that was not paid has a null
\* paid_at, and new Date(null) is the epoch
PaidAtDate(data) == IF data.paid_at = None THEN 0 ELSE NewDate(Val(data.paid_at))

\* the channel and paid_at of the successful charges tried; "eft" is a channel
\* the Payment schema's paymentMethod enum does not list
SuccessCases ==
    { <<"card", "2024-01-01T00:00:00Z">>, <<"eft", "2024-01-01T00:00:00Z">> }

\* Payment.paymentMethod enum
PaymentMethodEnum == {"card", "bank", "ussd", "qr", "mobile_money", "bank_transfer"}

\* Payment.status enum
PaymentStatusEnum == {"pending", "success", "failed", "abandoned"}

\* `ORDER-${orderId}-${Date.now()}`
MakeReference(orderId, t) == <<"ORDER", orderId, DateNow(t)>>

----------------------------------------------------------------------------
(* Gateway data *)

\* data of a successful charge (verify response or charge.success payload)
SuccessData(ref, ch, at) ==
    [reference |-> ref, status |-> "success", channel |-> Some(ch),
     paid_at |-> Some(at), gateway_response |-> "Successful"]

\* data of a charge that did not succeed
FailureData(ref, st, ch) ==
    [reference |-> ref, status |-> st, channel |-> Some(ch),
     paid_at |-> None, gateway_response |-> "Declined"]

\* paystackResponse.data of transaction.initialize
InitData(ref) ==
    [reference |-> ref, status |-> "initialized", channel |-> None,
     paid_at |-> None, gateway_response |-> "Authorization URL created"]

\* what transaction.verify can answer for a reference
VerifyData(ref) ==
    { SuccessData(ref, c[1], c[2]) : c \in SuccessCases }
    \cup { FailureData(ref, st, ch) : st \in {"failed", "abandoned"}, ch \in {"card"} }

\* the data of a charge.success / charge.failed payload
WebhookData(ref, event) ==
    IF event = "charge.success"
    THEN { SuccessData(ref, c[1], c[2]) : c \in SuccessCases }
    ELSE { FailureData(ref, "failed", "card") }

\* the events tried: those the switch names, and one it does not
WebhookEvents ==
    {"charge.success", "charge.failed", "transfer.success", "transfer.failed",
     "invoice.create"}

\* the request bodies tried for an event and a reference: { event, data } with
\* the data of the charge, and a body that has no data
WebhookBodies(ref, event) ==
    { [event |-> event, data |-> Some(d)] : d \in WebhookData(ref, event) }
    \cup { [event |-> event, data |-> None] }

\* validateWebhook (paymentValidator.js): event and data are required
validateWebhook(body) == body.data # None

\* HMAC-SHA512 of the serialized body under a secret, as an injective pairing
WebhookSecret == "whsec"
Hmac(secret, body) == <<"sha512", secret, body>>

\* paystackService.validateWebhookSignature
validateWebhookSignature(signature, body) ==
    Some(Hmac(WebhookSecret, body)) = signature

\* the signature headers tried for a body: the right one, none, and one made
\* with the right secret for another body
Signatures(body) ==
    { Some(Hmac(WebhookSecret, body)), None,
      Some(Hmac(WebhookSecret, [body EXCEPT !.event = "forged"])) }

\* what paystackService.initializeTransaction can do: return a response whose
\* status is true, return one whose status is false, or throw
GatewayOutcomes == {"ok", "false", "throw"}

\* what paystackService.verifyTransaction can do for a reference: return a
\* response whose status is true, with the data of the charge; return one whose
\* status is false (it has a data object, or reading response.data.status
\* would have thrown); or throw
VerifyAnswers(ref) ==
    { [outcome |-> "ok", data |-> Some(d)] : d \in VerifyData(ref) }
    \cup { [outcome |-> "false", data |-> Some(FailureData(ref, "failed", "card"))] }
    \cup { [outcome |-> "throw", data |-> None] }

----------------------------------------------------------------------------
(* Documents *)

\* Order.create({ user, orderItems, ... }) (orderController.js lines 45-54):
\* not paid, not delivered, status pending
CreatedOrder(user, items) ==
    [user |-> user, orderItems |-> items, isPaid |-> FALSE, paidAt |-> None,
     paymentMethod |-> "card", paystackReference |-> None,
     paymentResult |-> None, status |-> "pending",
     isDelivered |-> FALSE, deliveredAt |-> None]

NewOrder(o) == CreatedOrder(OrderUser(o), ItemsOf(o))

NewPayment(user, orderId, ref) ==
    [user |-> user, order |-> orderId, reference |-> ref,
     amount |-> TotalPrice(orderId), status |-> "pending",
     paymentMethod |-> None, channel |-> None, gatewayResponse |-> None,
     paidAt |-> None, paystackData |-> InitData(ref)]

\* a save that writes the whole document as the request holds it
WholeDocument(stored, loaded, cur) == cur

\* document.save(): the paths of cur that differ from the loaded document are
\* written over the stored document
SaveDoc(stored, loaded, cur) ==
    [f \in DOMAIN stored |-> IF cur[f] # loaded[f] THEN cur[f] ELSE stored[f]]

\* schema validation run by payment.save()
PaymentValid(doc) ==
    /\ doc.status \in PaymentStatusEnum
    /\ doc.paymentMethod = None \/ Val(doc.paymentMethod) \in PaymentMethodEnum

\* Payment.findOne({ reference }): index of the row, 0 when there is none
FindByReference(ref) ==
    IF \E i \in 1..Len(payments) : payments[i].reference = ref
    THEN CHOOSE i \in 1..Len(payments) :
            /\ payments[i].reference = ref
            /\ \A j \in 1..(i-1) : payments[j].reference # ref
    ELSE 0

\* an index that lets every reference in
NeverTaken(ref) == FALSE

\* the unique index on reference (Payment.js lines 16-21): an insert of a row
\* whose reference another row has is rejected
ReferenceTaken(ref) == FindByReference(ref) # 0

ActiveStatuses == {"pending", "success"}

\* a lookup that sees successful payments only
FindSuccessful(orderId) ==
    IF \E i \in 1..Len(payments) :
          payments[i].order = orderId /\ payments[i].status = "success"
    THEN CHOOSE i \in 1..Len(payments) :
            payments[i].order = orderId /\ payments[i].status = "success"
    ELSE 0

\* Payment.findOne({ order, status: { $in: ['pending', 'success'] } })
FindActive(orderId) ==
    IF \E i \in 1..Len(payments) :
          payments[i].order = orderId /\ payments[i].status \in ActiveStatuses
    THEN CHOOSE i \in 1..Len(payments) :
            /\ payments[i].order = orderId /\ payments[i].status \in ActiveStatuses
            /\ \A j \in 1..(i-1) :
                  ~(payments[j].order = orderId /\ payments[j].status \in ActiveStatuses)
    ELSE 0

----------------------------------------------------------------------------
(* In-memory changes the handlers make to a loaded document *)

\* a test that takes every charge for a successful one
AnyCharge(data) == TRUE

\* if (data.status === 'success') (line 537): the branch of verifyPayment that
\* sets paidAt and marks the order
ChargeSucceeded(data) == data.status = "success"

\* verifyPayment, lines 531-538
VerifyAssign(doc, data) ==
    [doc EXCEPT
        !.status = IF data.status = "success" THEN "success" ELSE "failed",
        !.paystackData = data,
        !.gatewayResponse = Some(data.gateway_response),
        !.channel = data.channel,
        !.paymentMethod = data.channel,
        !.paidAt = IF ChargeSucceeded(data)
                   THEN Some(PaidAtDate(data)) ELSE doc.paidAt]

\* handleSuccessfulCharge, lines 624-629
SuccessAssign(doc, data) ==
    [doc EXCEPT
        !.status = "success",
        !.paystackData = data,
        !.gatewayResponse = Some(data.gateway_response),
        !.channel = data.channel,
        !.paymentMethod = data.channel,
        !.paidAt = Some(PaidAtDate(data))]

\* handleFailedCharge, lines 662-664
FailedAssign(doc, data) ==
    [doc EXCEPT
        !.status = "failed",
        !.paystackData = data,
        !.gatewayResponse = Some(data.gateway_response)]

\* an assignment that leaves the order as it was loaded
OrderKept(odoc, ref, data) == odoc

\* the order fields both success paths set, lines 543-552 and 635-644
OrderPaidAssign(odoc, ref, data) ==
    [odoc EXCEPT
        !.isPaid = TRUE,
        !.paidAt = Some(PaidAtDate(data)),
        !.paymentMethod = "paystack",
        !.paystackReference = Some(ref),
        !.paymentResult = Some([status |-> data.status, updateTime |-> data.paid_at])]

\* verifyPayment marks the order it found, whatever its isPaid (line 542)
VerifyOrderGuard(odoc) == TRUE

\* a guard that never lets the order be marked
NeverMarked(odoc) == FALSE

\* handleSuccessfulCharge marks the order only when !order.isPaid (line 634)
WebhookOrderGuard(odoc) == ~odoc.isPaid

----------------------------------------------------------------------------
(* Checks of the handlers *)

\* order.user.toString() !== req.user._id.toString() (part_002 line 404,
\* orderController.js line 178)
OwnsOrder(odoc, user) == odoc.user = user

\* order.isPaid (line 409)
OrderAlreadyPaid(odoc) == odoc.isPaid

\* payment.user.toString() !== req.user._id.toString() (line 506)
OwnsPayment(pdoc, user) == pdoc.user = user

\* payment.status === 'success' (line 511): verifyPayment answers at once
AlreadyVerified(pdoc) == pdoc.status = "success"

\* !paystackResponse.status, or initializeTransaction throwing (lines 440-456)
GatewayAccepted(outcome) == outcome = "ok"

\* !verificationResponse.status, or verifyTransaction throwing (lines 522-526)
VerificationAccepted(outcome) == outcome = "ok"

----------------------------------------------------------------------------
(* Requests *)

Idle ==
    [op |-> "idle", pc |-> "idle", user |-> "", orderId |-> "", ref |-> None,
     data |-> None, pidx |-> 0, pload |-> None, oload |-> None,
     items |-> <<>>, k |-> 0, sload |-> None, status |-> "", at |-> None]

\* the response of a completed request: the handler, the HTTP status, the
\* message, the reference in the body (initializePayment only), and whether
\* the request called the gateway
Response(op, code, message, ref, gw) ==
    [op |-> op, code |-> code, message |-> message, ref |-> ref, gateway |-> gw]

NoResponse == Response("none", 0, "", None, FALSE)

\* the request of handler op ended and nothing was sent: neither res.status
\* nor res.json was called
Unanswered(op, gw) == Response(op, 0, "", None, gw)

\* the values of NODE_ENV errorHandler tells apart (lines 88 and 90); "test"
\* stands for every other value and for a NODE_ENV that is not set
NodeEnvs == {"development", "production", "test"}

\* the race of one poll and one notification that carry the same verdict: the
\* verdict, and whether the poll and the notification have been received.
\* The program at large runs no such race.
NoRace == [verdict |-> None, poll |-> FALSE, hook |-> FALSE]

IsIdle(p) == proc[p].op = "idle"

\* a request is received: it takes the first free slot
Receive(p) ==
    /\ budget > 0
    /\ IsIdle(p)
    /\ \A q \in Slots : q < p => ~IsIdle(q)
    /\ budget' = budget - 1

\* the server has started: the orders placed, no payment, no request
Started ==
    /\ orders = [o \in OrderIds |-> NewOrder(o)]
    /\ payments = <<>>
    /\ now = 0
    /\ proc = [p \in Slots |-> Idle]
    /\ last = NoResponse
    /\ race = NoRace
    /\ stock = StockAtStart
    /\ env \in NodeEnvs

Init == Started /\ budget = MaxRequests

\* the same with one more request to come
InitLong == Started /\ budget = MaxRequests + 1

\* the readings Date.now() can give: the clock has not gone back since the
\* last reading, and it may have advanced
ClockReadings == now..MaxTime

\* res.status(code).json(...): the request ends with the response
Respond(p, resp) ==
    /\ proc' = [proc EXCEPT ![p] = Idle]
    /\ last' = resp
    /\ UNCHANGED env

\* the request goes on to its next await
Goto(p, rec) ==
    /\ proc' = [proc EXCEPT ![p] = rec]
    /\ UNCHANGED <<last, env>>

\* errorHandler (errorHandler.js lines 84-103) sends a response in
\* development (line 88) and in production (line 90), and nothing otherwise
ErrorAnswered == env \in {"development", "production"}

\* return next(new AppError(message, code)): errorHandler sends the status
\* and the message of the AppError, which is operational (lines 49, 62-66)
NextAppError(p, resp) ==
    IF ErrorAnswered
    THEN Respond(p, resp)
    ELSE Respond(p, Unanswered(resp.op, resp.gateway))

\* an Error thrown by the gateway service and passed to next by asyncHandler:
\* it has no statusCode (line 85: 500) and is not operational (lines 69-78)
NextError(p, op, message, gw) ==
    IF env = "development"
    THEN Respond(p, Response(op, 500, message, None, gw))
    ELSE IF env = "production"
    THEN Respond(p, Response(op, 500, "Something went wrong!", None, gw))
    ELSE Respond(p, Unanswered(op, gw))

\* next(err) with an error thrown by a database operation, which is not an
\* AppError: a duplicate key or a ValidationError is answered 500 in
\* development (line 85) and 400 in production (lines 96-97)
Throw(p, op, kind, gw) ==
    IF env = "development"
    THEN Respond(p, Response(op, 500, kind, None, gw))
    ELSE IF env = "production"
    THEN Respond(p, Response(op, 400, kind, None, gw))
    ELSE Respond(p, Unanswered(op, gw))

----------------------------------------------------------------------------
(* initializePayment, part_002 lines 393-488 *)

\* lines 394-411: Order.findById and the checks on the order
initializePayment_Start(p, user, orderId) ==
    /\ Receive(p)
    /\ LET resp(code, msg) == Response("initializePayment", code, msg, None, FALSE)
       IN  IF orderId \notin DOMAIN orders
           THEN NextAppError(p, resp(404, "Order not found"))
           ELSE IF ~OwnsOrder(orders[orderId], user)
           THEN NextAppError(p, resp(403, "Not authorized to pay for this order"))
           ELSE IF OrderAlreadyPaid(orders[orderId])
           THEN NextAppError(p, resp(400, "Order is already paid"))
           ELSE Goto(p, [Idle EXCEPT !.op = "initializePayment", !.pc = "ip_find",
                                     !.user = user, !.orderId = orderId])
    /\ UNCHANGED <<orders, payments, now, stock>>

\* lines 413-437: the lookup of a pending or successful payment of the order,
\* and the reference of a new one
initializePayment_Find(p, t) ==
    /\ proc[p].pc = "ip_find"
    /\ LET r == proc[p]
           i == FindActive(r.orderId)
           resp(code, msg, ref) == Response("initializePayment", code, msg, ref, FALSE)
       IN  IF i # 0
           THEN /\ IF payments[i].status = "success"
                   THEN NextAppError(p, resp(400, "Payment already completed for this order",
                                        None))
                   ELSE Respond(p, resp(200, "Payment already initialized",
                                        Some(payments[i].reference)))
                /\ UNCHANGED now
           ELSE /\ Goto(p, [r EXCEPT !.pc = "ip_gateway",
                                     !.ref = Some(MakeReference(r.orderId, t))])
                /\ now' = t
    /\ UNCHANGED <<orders, payments, budget, race, stock>>

\* lines 439-456: paystackService.initializeTransaction
initializePayment_Gateway(p, outcome) ==
    /\ proc[p].pc = "ip_gateway"
    /\ LET r == proc[p]
           resp(msg) == Response("initializePayment", 500, msg, None, TRUE)
       IN  IF GatewayAccepted(outcome)
           THEN Goto(p, [r EXCEPT !.pc = "ip_create"])
           ELSE IF outcome = "throw"
           THEN NextError(p, "initializePayment", "Payment initialization failed", TRUE)
           ELSE NextAppError(p, resp("Failed to initialize payment"))
    /\ UNCHANGED <<orders, payments, now, budget, race, stock>>

\* lines 458-487: Payment.create; the unique index on reference rejects a
\* second row with the same reference
initializePayment_Create(p) ==
    /\ proc[p].pc = "ip_create"
    /\ LET r == proc[p]
           ref == Val(r.ref)
       IN  IF ReferenceTaken(ref)
           THEN /\ Throw(p, "initializePayment", "Duplicate field value", TRUE)
                /\ UNCHANGED payments
           ELSE /\ payments' = Append(payments, NewPayment(r.user, r.orderId, ref))
                /\ Respond(p, Response("initializePayment", 201,
                                       "Payment initialized successfully", r.ref, TRUE))
    /\ UNCHANGED <<orders, now, budget, race, stock>>

----------------------------------------------------------------------------
(* verifyPayment, part_002 lines 495-566 *)

\* lines 496-519: Payment.findOne({ reference }) and the checks on the payment
verifyPayment_Start(p, user, ref) ==
    /\ Receive(p)
    /\ LET i == FindByReference(ref)
           resp(code, msg) == Response("verifyPayment", code, msg, None, FALSE)
       IN  IF i = 0
           THEN NextAppError(p, resp(404, "Payment not found"))
           ELSE IF ~OwnsPayment(payments[i], user)
           THEN NextAppError(p, resp(403, "Not authorized to verify this payment"))
           ELSE IF AlreadyVerified(payments[i])
           THEN Respond(p, resp(200, "Payment already verified"))
           ELSE Goto(p, [Idle EXCEPT !.op = "verifyPayment", !.pc = "vp_gateway",
                                     !.user = user, !.ref = Some(ref),
                                     !.orderId = payments[i].order,
                                     !.pidx = i, !.pload = Some(payments[i])])
    /\ UNCHANGED <<orders, payments, now, stock>>

\* lines 521-538: paystackService.verifyTransaction and the changes to the
\* payment in memory
verifyPayment_Gateway(p, answer) ==
    /\ proc[p].pc = "vp_gateway"
    /\ LET r == proc[p]
       IN  IF VerificationAccepted(answer.outcome)
           THEN Goto(p, [r EXCEPT !.data = answer.data,
                                  !.pc = IF ChargeSucceeded(Val(answer.data))
                                         THEN "vp_loadorder" ELSE "vp_savepayment"])
           ELSE IF answer.outcome = "throw"
           THEN NextError(p, "verifyPayment", "Payment verification failed", TRUE)
           ELSE NextAppError(p, Response("verifyPayment", 500,
                                         "Payment verification failed", None, TRUE))
    /\ UNCHANGED <<orders, payments, now, budget, race, stock>>

\* lines 541-552: Order.findById and the changes to the order in memory
verifyPayment_LoadOrder(p) ==
    /\ proc[p].pc = "vp_loadorder"
    /\ LET r == proc[p]
       IN  IF r.orderId \in DOMAIN orders /\ VerifyOrderGuard(orders[r.orderId])
           THEN Goto(p, [r EXCEPT !.pc = "vp_saveorder",
                                  !.oload = Some(orders[r.orderId])])
           ELSE Goto(p, [r EXCEPT !.pc = "vp_savepayment"])
    /\ UNCHANGED <<orders, payments, now, budget, race, stock>>

\* line 553: order.save()
verifyPayment_SaveOrder(p) ==
    /\ proc[p].pc = "vp_saveorder"
    /\ LET r == proc[p]
           loaded == Val(r.oload)
       IN  /\ orders' = [orders EXCEPT ![r.orderId] =
                  SaveDoc(@, loaded, OrderPaidAssign(loaded, Val(r.ref), Val(r.data)))]
           /\ Goto(p, [r EXCEPT !.pc = "vp_savepayment", !.oload = None])
    /\ UNCHANGED <<payments, now, budget, race, stock>>

\* lines 557-565: payment.save() and the answer
verifyPayment_SavePayment(p) ==
    /\ proc[p].pc = "vp_savepayment"
    /\ LET r == proc[p]
           loaded == Val(r.pload)
           cur == VerifyAssign(loaded, Val(r.data))
       IN  IF PaymentValid(cur)
           THEN /\ payments' = [payments EXCEPT ![r.pidx] = SaveDoc(@, loaded, cur)]
                /\ Respond(p, Response("verifyPayment", 200,
                                       IF cur.status = "success" THEN "Payment success"
                                                                 ELSE "Payment failed",
                                       None, TRUE))
           ELSE /\ UNCHANGED payments
                /\ Throw(p, "verifyPayment", "ValidationError", TRUE)
    /\ UNCHANGED <<orders, now, budget, race, stock>>

----------------------------------------------------------------------------
(* handleWebhook, part_002 lines 573-668 *)

Processed == Response("handleWebhook", 200, "Webhook processed", None, FALSE)

\* a switch that hands every event to a charge handler
AnyEvent(event) == TRUE

\* the cases of the switch that call a charge handler (lines 588-594)
HasChargeHandler(event) == event \in {"charge.success", "charge.failed"}

\* the dispatch on the event (lines 582-603) and the Payment.findOne of the
\* charge handler (616-621, 655-660)
handleWebhook_Dispatch(p, event, data) ==
    LET i == FindByReference(data.reference)
    IN  IF ~HasChargeHandler(event) \/ i = 0
        THEN Respond(p, Processed)
        ELSE Goto(p, [Idle EXCEPT !.op = event,
                                  !.pc = IF event = "charge.success"
                                         THEN "hs_savepayment" ELSE "hf_save",
                                  !.ref = Some(data.reference),
                                  !.orderId = payments[i].order,
                                  !.data = Some(data),
                                  !.pidx = i, !.pload = Some(payments[i])])

\* POST /webhook: validateWebhook (paymentRoutes.js line 13), then the
\* signature check of handleWebhook (lines 574-580), then the dispatch
handleWebhook_Start(p, body, signature) ==
    /\ Receive(p)
    /\ LET resp(msg) == Response("handleWebhook", 400, msg, None, FALSE)
       IN  IF ~validateWebhook(body)
           THEN Respond(p, resp("Invalid webhook payload"))
           ELSE IF ~validateWebhookSignature(signature, body)
           THEN NextAppError(p, resp("Invalid signature"))
           ELSE handleWebhook_Dispatch(p, body.event, Val(body.data))
    /\ UNCHANGED <<orders, payments, now, stock>>

\* handleSuccessfulCharge lines 623-630: payment.save()
handleSuccessfulCharge_SavePayment(p) ==
    /\ proc[p].pc = "hs_savepayment"
    /\ LET r == proc[p]
           loaded == Val(r.pload)
           cur == SuccessAssign(loaded, Val(r.data))
       IN  IF PaymentValid(cur)
           THEN /\ payments' = [payments EXCEPT ![r.pidx] = SaveDoc(@, loaded, cur)]
                /\ Goto(p, [r EXCEPT !.pc = "hs_loadorder", !.pload = None])
           ELSE /\ UNCHANGED payments
                /\ Throw(p, "handleWebhook", "ValidationError", FALSE)
    /\ UNCHANGED <<orders, now, budget, race, stock>>

\* handleSuccessfulCharge lines 633-644: Order.findById and the changes to the
\* order in memory
handleSuccessfulCharge_LoadOrder(p) ==
    /\ proc[p].pc = "hs_loadorder"
    /\ LET r == proc[p]
       IN  IF r.orderId \in DOMAIN orders /\ WebhookOrderGuard(orders[r.orderId])
           THEN Goto(p, [r EXCEPT !.pc = "hs_saveorder",
                                  !.oload = Some(orders[r.orderId])])
           ELSE Respond(p, Processed)
    /\ UNCHANGED <<orders, payments, now, budget, race, stock>>

\* handleSuccessfulCharge line 645: order.save(); handleWebhook lines 605-609
handleSuccessfulCharge_SaveOrder(p) ==
    /\ proc[p].pc = "hs_saveorder"
    /\ LET r == proc[p]
           loaded == Val(r.oload)
       IN  /\ orders' = [orders EXCEPT ![r.orderId] =
                  SaveDoc(@, loaded, OrderPaidAssign(loaded, Val(r.ref), Val(r.data)))]
           /\ Respond(p, Processed)
    /\ UNCHANGED <<payments, now, budget, race, stock>>

\* handleFailedCharge lines 662-665: payment.save(); handleWebhook lines 605-609
handleFailedCharge_Save(p) ==
    /\ proc[p].pc = "hf_save"
    /\ LET r == proc[p]
           loaded == Val(r.pload)
           cur == FailedAssign(loaded, Val(r.data))
       IN  IF PaymentValid(cur)
           THEN /\ payments' = [payments EXCEPT ![r.pidx] = SaveDoc(@, loaded, cur)]
                /\ Respond(p, Processed)
           ELSE /\ UNCHANGED payments
                /\ Throw(p, "handleWebhook", "ValidationError", FALSE)
    /\ UNCHANGED <<orders, now, budget, race, stock>>

----------------------------------------------------------------------------
(* updateOrderToPaid, orderController.js lines 170-199 *)

\* req.body of PUT /orders/:id/pay, as stored in order.paymentResult
ManualResult == [status |-> "COMPLETED", updateTime |-> None]

\* lines 171-191: Order.findById, the checks, the assignments with the
\* reading of the clock; the request is suspended at order.save()
updateOrderToPaid_Start(p, user, orderId, t) ==
    /\ Receive(p)
    /\ LET resp(code, msg) == Response("updateOrderToPaid", code, msg, None, FALSE)
       IN  IF orderId \notin DOMAIN orders
           THEN /\ UNCHANGED now
                /\ NextAppError(p, resp(404, "Order not found"))
           ELSE IF ~OwnsOrder(orders[orderId], user)
           THEN /\ UNCHANGED now
                /\ NextAppError(p, resp(403, "Not authorized to update this order"))
           ELSE /\ now' = t
                /\ Goto(p, [Idle EXCEPT !.op = "updateOrderToPaid",
                                        !.pc = "utp_save", !.user = user,
                                        !.orderId = orderId,
                                        !.oload = Some(orders[orderId]),
                                        !.at = Some(DateNow(t))])
    /\ UNCHANGED <<orders, payments, stock>>

\* order.isPaid = true, order.paidAt = Date.now(), order.paymentResult
\* (lines 182-189)
ManualPaidAssign(odoc, at) ==
    [odoc EXCEPT !.isPaid = TRUE, !.paidAt = at,
                 !.paymentResult = Some(ManualResult)]

\* lines 191-198: order.save() and the answer
updateOrderToPaid_Save(p) ==
    /\ proc[p].pc = "utp_save"
    /\ LET r == proc[p]
           loaded == Val(r.oload)
       IN  /\ orders' = [orders EXCEPT ![r.orderId] =
                  SaveDoc(@, loaded, ManualPaidAssign(loaded, r.at))]
           /\ Respond(p, Response("updateOrderToPaid", 200, "success", None, FALSE))
    /\ UNCHANGED <<payments, now, budget, race, stock>>

----------------------------------------------------------------------------
(* createOrder, orderController.js lines 11-62 *)

\* the ids Order.create gives to the orders created, in this order
FreshOrderIds == <<"o2", "o3">>

\* the orders created so far
CreatedCount == Cardinality(DOMAIN orders \ OrderIds)

\* the createOrder requests in flight
Creating == {p \in Slots : proc[p].op = "createOrder"}

\* product.stock < item.quantity (line 34)
InsufficientStock(s, quantity) == s < quantity

\* product.stock += item.quantity, taken for a decrement
StockTaken(s, quantity) == s - quantity

\* product.stock -= item.quantity (line 41)
StockDecremented(s, quantity) == s - quantity

\* product.stock += item.quantity (line 230)
StockRestored(s, quantity) == s + quantity

\* schema validation run by product.save(): min 0 (Product.js lines 41-46)
ProductValid(s) == s >= 0

\* the request goes on to the next item of its loop, or leaves the loop
NextItem(p, r, items, loop, after) ==
    IF r.k < Len(items)
    THEN Goto(p, [r EXCEPT !.pc = loop, !.k = r.k + 1, !.sload = None])
    ELSE Goto(p, [r EXCEPT !.pc = after, !.sload = None])

\* lines 12-24: the request body
createOrder_Start(p, user, items) ==
    /\ Receive(p)
    /\ CreatedCount + Cardinality(Creating) < Len(FreshOrderIds)
    /\ IF Len(items) = 0
       THEN NextAppError(p, Response("createOrder", 400, "No order items provided",
                                None, FALSE))
       ELSE Goto(p, [Idle EXCEPT !.op = "createOrder", !.pc = "co_find",
                                 !.user = user, !.items = items, !.k = 1])
    /\ UNCHANGED <<orders, payments, now, stock>>

\* lines 28-41: Product.findById and the checks on the product
createOrder_FindProduct(p) ==
    /\ proc[p].pc = "co_find"
    /\ LET r == proc[p]
           item == r.items[r.k]
           resp(code, msg) == Response("createOrder", code, msg, None, FALSE)
       IN  IF item.product \notin DOMAIN stock
           THEN NextAppError(p, resp(404, "Product not found"))
           ELSE IF InsufficientStock(stock[item.product], item.quantity)
           THEN NextAppError(p, resp(400, "Insufficient stock for product"))
           ELSE Goto(p, [r EXCEPT !.pc = "co_saveproduct",
                                  !.sload = Some(stock[item.product])])
    /\ UNCHANGED <<orders, payments, now, budget, race, stock>>

\* line 42: product.save()
createOrder_SaveProduct(p) ==
    /\ proc[p].pc = "co_saveproduct"
    /\ LET r == proc[p]
           item == r.items[r.k]
       IN  /\ stock' = [stock EXCEPT ![item.product] =
                           StockDecremented(Val(r.sload), item.quantity)]
           /\ NextItem(p, r, r.items, "co_find", "co_create")
    /\ UNCHANGED <<orders, payments, now, budget, race>>

\* lines 45-61: Order.create and the answer
createOrder_Create(p) ==
    /\ proc[p].pc = "co_create"
    /\ LET r == proc[p]
           id == FreshOrderIds[CreatedCount + 1]
       IN  /\ orders' = [o \in DOMAIN orders \cup {id} |->
                            IF o = id THEN CreatedOrder(r.user, r.items) ELSE orders[o]]
           /\ Respond(p, Response("createOrder", 201, "success", None, FALSE))
    /\ UNCHANGED <<payments, now, budget, race, stock>>

----------------------------------------------------------------------------
(* updateOrderStatus, orderController.js lines 138-163 *)

\* lines 139-153: Order.findById and the changes to the order in memory; the
\* route lets administrators only through (part_001 line 17)
updateOrderStatus_Start(p, orderId, status, t) ==
    /\ Receive(p)
    /\ IF orderId \notin DOMAIN orders
       THEN /\ NextAppError(p, Response("updateOrderStatus", 404, "Order not found",
                                   None, FALSE))
            /\ UNCHANGED now
       ELSE /\ Goto(p, [Idle EXCEPT !.op = "updateOrderStatus", !.pc = "us_save",
                                    !.user = Admin, !.orderId = orderId,
                                    !.oload = Some(orders[orderId]),
                                    !.status = status,
                                    !.at = IF status = "delivered"
                                           THEN Some(DateNow(t)) ELSE None])
            /\ now' = IF status = "delivered" THEN t ELSE now
    /\ UNCHANGED <<orders, payments, stock>>

\* order.status = status; isDelivered and deliveredAt when delivered
StatusAssign(odoc, status, at) ==
    IF status = "delivered"
    THEN [odoc EXCEPT !.status = status, !.isDelivered = TRUE, !.deliveredAt = at]
    ELSE [odoc EXCEPT !.status = status]

\* lines 155-162: order.save() and the answer
updateOrderStatus_Save(p) ==
    /\ proc[p].pc = "us_save"
    /\ LET r == proc[p]
           loaded == Val(r.oload)
       IN  /\ orders' = [orders EXCEPT ![r.orderId] =
                  SaveDoc(@, loaded, StatusAssign(loaded, r.status, r.at))]
           /\ Respond(p, Response("updateOrderStatus", 200, "success", None, FALSE))
    /\ UNCHANGED <<payments, now, budget, race, stock>>

----------------------------------------------------------------------------
(* cancelOrder, orderController.js lines 206-244 *)

\* req.user.role === 'admin'
IsAdmin(user) == user = Admin

\* ['pending', 'processing'].includes(order.status) (line 222)
Cancellable(odoc) == odoc.status \in {"pending", "processing"}

\* lines 207-224: Order.findById and the checks on the order
cancelOrder_Start(p, user, orderId) ==
    /\ Receive(p)
    /\ LET resp(code, msg) == Response("cancelOrder", code, msg, None, FALSE)
       IN  IF orderId \notin DOMAIN orders
           THEN NextAppError(p, resp(404, "Order not found"))
           ELSE IF ~OwnsOrder(orders[orderId], user) /\ ~IsAdmin(user)
           THEN NextAppError(p, resp(403, "Not authorized to cancel this order"))
           ELSE IF ~Cancellable(orders[orderId])
           THEN NextAppError(p, resp(400, "Cannot cancel order in current status"))
           ELSE Goto(p, [Idle EXCEPT !.op = "cancelOrder",
                                     !.pc = IF Len(orders[orderId].orderItems) = 0
                                            THEN "ca_saveorder" ELSE "ca_find",
                                     !.user = user, !.orderId = orderId,
                                     !.oload = Some(orders[orderId]), !.k = 1])
    /\ UNCHANGED <<orders, payments, now, stock>>

\* lines 227-230: Product.findById of the loop that restores the stock
cancelOrder_FindProduct(p) ==
    /\ proc[p].pc = "ca_find"
    /\ LET r == proc[p]
           items == Val(r.oload).orderItems
           item == items[r.k]
       IN  IF item.product \in DOMAIN stock
           THEN Goto(p, [r EXCEPT !.pc = "ca_saveproduct",
                                  !.sload = Some(stock[item.product])])
           ELSE NextItem(p, r, items, "ca_find", "ca_saveorder")
    /\ UNCHANGED <<orders, payments, now, budget, race, stock>>

\* line 231: product.save()
cancelOrder_SaveProduct(p) ==
    /\ proc[p].pc = "ca_saveproduct"
    /\ LET r == proc[p]
           items == Val(r.oload).orderItems
           item == items[r.k]
           s == StockRestored(Val(r.sload), item.quantity)
       IN  IF ProductValid(s)
           THEN /\ stock' = [stock EXCEPT ![item.product] = s]
                /\ NextItem(p, r, items, "ca_find", "ca_saveorder")
           ELSE /\ UNCHANGED stock
                /\ Throw(p, "cancelOrder", "ValidationError", FALSE)
    /\ UNCHANGED <<orders, payments, now, budget, race>>

\* lines 235-243: order.save() and the answer
cancelOrder_SaveOrder(p) ==
    /\ proc[p].pc = "ca_saveorder"
    /\ LET r == proc[p]
           loaded == Val(r.oload)
       IN  /\ orders' = [orders EXCEPT ![r.orderId] =
                  SaveDoc(@, loaded, [loaded EXCEPT !.status = "cancelled"])]
           /\ Respond(p, Response("cancelOrder", 200, "success", None, FALSE))
    /\ UNCHANGED <<payments, now, budget, race, stock>>

----------------------------------------------------------------------------
(* createProduct and updateProduct, part_002 lines 68-100 *)

\* the stock an administrator sends in the body of a product request: an
\* integer >= 0 (productValidator.js lines 27 and 44)
StockInputs == {0, 5}

\* the id of the product POST /products creates
FreshProduct == "p3"

\* lines 68-77: Product.create(req.body) and the answer
createProduct(p, s) ==
    /\ Receive(p)
    /\ FreshProduct \notin DOMAIN stock
    /\ stock' = [prod \in DOMAIN stock \cup {FreshProduct} |->
                    IF prod = FreshProduct THEN s ELSE stock[prod]]
    /\ Respond(p, Response("createProduct", 201, "success", None, FALSE))
    /\ UNCHANGED <<orders, payments, now>>

\* lines 84-100: Product.findByIdAndUpdate(req.params.id, req.body) with a
\* body that carries the stock, and the answer
updateProduct(p, product, s) ==
    /\ Receive(p)
    /\ IF product \notin DOMAIN stock
       THEN /\ UNCHANGED stock
            /\ NextAppError(p, Response("updateProduct", 404, "Product not found",
                                        None, FALSE))
       ELSE /\ stock' = [stock EXCEPT ![product] = s]
            /\ Respond(p, Response("updateProduct", 200, "success", None, FALSE))
    /\ UNCHANGED <<orders, payments, now>>

----------------------------------------------------------------------------
(* The system *)

\* the references a request can name: those of the rows, and one of no row
KnownRefs == {payments[i].reference : i \in 1..Len(payments)} \cup {UnknownRef}

\* the answers the gateway can give to the verification a request waits for
PendingVerifyAnswers(p) ==
    IF proc[p].pc = "vp_gateway" THEN VerifyAnswers(Val(proc[p].ref)) ELSE {}

Next ==
    \/ \E p \in Slots, u \in Users, o \in OrderIds \cup {MissingOrder} :
          initializePayment_Start(p, u, o) /\ UNCHANGED race
    \/ \E p \in Slots, t \in ClockReadings : initializePayment_Find(p, t)
    \/ \E p \in Slots, outcome \in GatewayOutcomes : initializePayment_Gateway(p, outcome)
    \/ \E p \in Slots : initializePayment_Create(p)
    \/ \E p \in Slots, u \in Users, ref \in KnownRefs :
          verifyPayment_Start(p, u, ref) /\ UNCHANGED race
    \/ \E p \in Slots : \E answer \in PendingVerifyAnswers(p) :
          verifyPayment_Gateway(p, answer)
    \/ \E p \in Slots : verifyPayment_LoadOrder(p)
    \/ \E p \in Slots : verifyPayment_SaveOrder(p)
    \/ \E p \in Slots : verifyPayment_SavePayment(p)
    \/ \E p \in Slots, ev \in WebhookEvents, ref \in KnownRefs :
          \E body \in WebhookBodies(ref, ev) :
             \E sig \in Signatures(body) :
                handleWebhook_Start(p, body, sig) /\ UNCHANGED race
    \/ \E p \in Slots : handleSuccessfulCharge_SavePayment(p)
    \/ \E p \in Slots : handleSuccessfulCharge_LoadOrder(p)
    \/ \E p \in Slots : handleSuccessfulCharge_SaveOrder(p)
    \/ \E p \in Slots : handleFailedCharge_Save(p)
    \/ \E p \in Slots, u \in Users, o \in OrderIds \cup {MissingOrder},
          t \in ClockReadings : updateOrderToPaid_Start(p, u, o, t) /\ UNCHANGED race
    \/ \E p \in Slots : updateOrderToPaid_Save(p)

Spec == Init /\ [][Next]_vars

\* the runs of one request more
SpecLong == InitLong /\ [][Next]_vars

----------------------------------------------------------------------------
(* The race of a poll and a notification *)

\* a payment has just been initialized for an order, and the gateway has a
\* successful charge for it: the owner's poll and the gateway's charge.success
\* notification are still to come, and both will carry this charge
RaceInit ==
    \E o \in OrderIds, t \in 0..MaxTime, c \in SuccessCases :
       LET ref == MakeReference(o, t)
       IN  /\ orders = [x \in OrderIds |-> NewOrder(x)]
           /\ payments = <<NewPayment(OrderUser(o), o, ref)>>
           /\ now = t
           /\ proc = [p \in Slots |-> Idle]
           /\ last = Response("initializePayment", 201,
                              "Payment initialized successfully", Some(ref), TRUE)
           /\ budget = 2
           /\ stock = StockAtStart
           /\ env \in NodeEnvs
           /\ race = [verdict |-> Some(SuccessData(ref, c[1], c[2])),
                      poll |-> FALSE, hook |-> FALSE]

\* GET /verify/:reference by the owner of the payment
Race_Poll(p) ==
    /\ ~race.poll
    /\ verifyPayment_Start(p, payments[1].user, Val(race.verdict).reference)
    /\ race' = [race EXCEPT !.poll = TRUE]

\* what paystackService.verifyTransaction can give the poll of the race: the
\* charge, a response whose status is false, or a thrown error
RaceAnswers ==
    { [outcome |-> "ok", data |-> race.verdict],
      [outcome |-> "false",
       data |-> Some(FailureData(Val(race.verdict).reference, "failed", "card"))],
      [outcome |-> "throw", data |-> None] }

\* the gateway call of the poll completes, with any of its outcomes
Race_PollAnswer(p) ==
    \E answer \in RaceAnswers : verifyPayment_Gateway(p, answer)

\* POST /webhook with the charge.success event of the charge, signed
Race_Notify(p) ==
    LET body == [event |-> "charge.success", data |-> race.verdict]
    IN  /\ ~race.hook
        /\ handleWebhook_Start(p, body, Some(Hmac(WebhookSecret, body)))
        /\ race' = [race EXCEPT !.hook = TRUE]

RaceNext ==
    \/ \E p \in Slots : Race_Poll(p)
    \/ \E p \in Slots : Race_PollAnswer(p)
    \/ \E p \in Slots : verifyPayment_LoadOrder(p)
    \/ \E p \in Slots : verifyPayment_SaveOrder(p)
    \/ \E p \in Slots : verifyPayment_SavePayment(p)
    \/ \E p \in Slots : Race_Notify(p)
    \/ \E p \in Slots : handleSuccessfulCharge_SavePayment(p)
    \/ \E p \in Slots : handleSuccessfulCharge_LoadOrder(p)
    \/ \E p \in Slots : handleSuccessfulCharge_SaveOrder(p)

SpecRace == RaceInit /\ [][RaceNext]_vars

----------------------------------------------------------------------------
(* Cancellation and status updates of the orders placed *)

\* PUT /orders/:id/cancel by a user or the administrator, and
\* PUT /orders/:id/status by the administrator
CancelNext ==
    \/ \E p \in Slots, u \in Users \cup {Admin}, o \in OrderIds \cup {MissingOrder} :
          cancelOrder_Start(p, u, o) /\ UNCHANGED race
    \/ \E p \in Slots : cancelOrder_FindProduct(p)
    \/ \E p \in Slots : cancelOrder_SaveProduct(p)
    \/ \E p \in Slots : cancelOrder_SaveOrder(p)
    \/ \E p \in Slots, o \in OrderIds \cup {MissingOrder}, st \in OrderStatusEnum,
          t \in ClockReadings : updateOrderStatus_Start(p, o, st, t) /\ UNCHANGED race
    \/ \E p \in Slots : updateOrderStatus_Save(p)

SpecCancel == Init /\ [][CancelNext]_vars

\* every operation that writes an order, asked for by the owner of the order
\* (the change of status by the administrator): the payment operations with
\* signed notifications, the manual payment, the cancellation and the change
\* of status
OrdersNext ==
    \/ \E p \in Slots, o \in DOMAIN orders :
          initializePayment_Start(p, orders[o].user, o) /\ UNCHANGED race
    \/ \E p \in Slots, t \in ClockReadings : initializePayment_Find(p, t)
    \/ \E p \in Slots, outcome \in GatewayOutcomes : initializePayment_Gateway(p, outcome)
    \/ \E p \in Slots : initializePayment_Create(p)
    \/ \E p \in Slots, i \in 1..Len(payments) :
          /\ verifyPayment_Start(p, payments[i].user, payments[i].reference)
          /\ UNCHANGED race
    \/ \E p \in Slots : \E answer \in PendingVerifyAnswers(p) :
          verifyPayment_Gateway(p, answer)
    \/ \E p \in Slots : verifyPayment_LoadOrder(p)
    \/ \E p \in Slots : verifyPayment_SaveOrder(p)
    \/ \E p \in Slots : verifyPayment_SavePayment(p)
    \/ \E p \in Slots, ev \in WebhookEvents, i \in 1..Len(payments) :
          \E d \in WebhookData(payments[i].reference, ev) :
             LET body == [event |-> ev, data |-> Some(d)]
             IN  /\ handleWebhook_Start(p, body, Some(Hmac(WebhookSecret, body)))
                 /\ UNCHANGED race
    \/ \E p \in Slots : handleSuccessfulCharge_SavePayment(p)
    \/ \E p \in Slots : handleSuccessfulCharge_LoadOrder(p)
    \/ \E p \in Slots : handleSuccessfulCharge_SaveOrder(p)
    \/ \E p \in Slots : handleFailedCharge_Save(p)
    \/ \E p \in Slots, o \in DOMAIN orders, t \in ClockReadings :
          updateOrderToPaid_Start(p, orders[o].user, o, t) /\ UNCHANGED race
    \/ \E p \in Slots : updateOrderToPaid_Save(p)
    \/ \E p \in Slots, o \in DOMAIN orders :
          cancelOrder_Start(p, orders[o].user, o) /\ UNCHANGED race
    \/ \E p \in Slots : cancelOrder_FindProduct(p)
    \/ \E p \in Slots : cancelOrder_SaveProduct(p)
    \/ \E p \in Slots : cancelOrder_SaveOrder(p)
    \/ \E p \in Slots, o \in DOMAIN orders, st \in OrderStatusEnum,
          t \in ClockReadings : updateOrderStatus_Start(p, o, st, t) /\ UNCHANGED race
    \/ \E p \in Slots : updateOrderStatus_Save(p)

SpecOrders == Init /\ [][OrdersNext]_vars

----------------------------------------------------------------------------
(* The shop: orders and their payments *)

\* the bodies of POST /orders tried: no item, one item, an item of a product
\* that does not exist, an item that asks for more than the stock
OrderItemsTried ==
    { <<>>, <<Item("p1", 1)>>, <<Item("p1", 1), Item(MissingProduct, 1)>>,
      <<Item("p2", 1), Item("p1", 3)>> }

\* the orders are created, paid for by their owners and cancelled; the
\* notifications of the gateway are well formed and signed; the administrator
\* adds a product and sets the stock of a product
ShopNext ==
    \/ \E p \in Slots, u \in Users, items \in OrderItemsTried :
          createOrder_Start(p, u, items) /\ UNCHANGED race
    \/ \E p \in Slots : createOrder_FindProduct(p)
    \/ \E p \in Slots : createOrder_SaveProduct(p)
    \/ \E p \in Slots : createOrder_Create(p)
    \/ \E p \in Slots, o \in DOMAIN orders :
          cancelOrder_Start(p, orders[o].user, o) /\ UNCHANGED race
    \/ \E p \in Slots : cancelOrder_FindProduct(p)
    \/ \E p \in Slots : cancelOrder_SaveProduct(p)
    \/ \E p \in Slots : cancelOrder_SaveOrder(p)
    \/ \E p \in Slots, o \in DOMAIN orders :
          initializePayment_Start(p, orders[o].user, o) /\ UNCHANGED race
    \/ \E p \in Slots, t \in ClockReadings : initializePayment_Find(p, t)
    \/ \E p \in Slots, outcome \in GatewayOutcomes : initializePayment_Gateway(p, outcome)
    \/ \E p \in Slots : initializePayment_Create(p)
    \/ \E p \in Slots, i \in 1..Len(payments) :
          /\ verifyPayment_Start(p, payments[i].user, payments[i].reference)
          /\ UNCHANGED race
    \/ \E p \in Slots : \E answer \in PendingVerifyAnswers(p) :
          verifyPayment_Gateway(p, answer)
    \/ \E p \in Slots : verifyPayment_LoadOrder(p)
    \/ \E p \in Slots : verifyPayment_SaveOrder(p)
    \/ \E p \in Slots : verifyPayment_SavePayment(p)
    \/ \E p \in Slots, ev \in WebhookEvents, i \in 1..Len(payments) :
          \E d \in WebhookData(payments[i].reference, ev) :
             LET body == [event |-> ev, data |-> Some(d)]
             IN  /\ handleWebhook_Start(p, body, Some(Hmac(WebhookSecret, body)))
                 /\ UNCHANGED race
    \/ \E p \in Slots : handleSuccessfulCharge_SavePayment(p)
    \/ \E p \in Slots : handleSuccessfulCharge_LoadOrder(p)
    \/ \E p \in Slots : handleSuccessfulCharge_SaveOrder(p)
    \/ \E p \in Slots : handleFailedCharge_Save(p)
    \/ \E p \in Slots, s \in StockInputs : createProduct(p, s) /\ UNCHANGED race
    \/ \E p \in Slots, prod \in Products \cup {MissingProduct}, s \in StockInputs :
          updateProduct(p, prod, s) /\ UNCHANGED race

SpecShop == Init /\ [][ShopNext]_vars

\* the orders are created and cancelled by their owners, concurrently
StockNext ==
    \/ \E p \in Slots, u \in Users, items \in OrderItemsTried :
          createOrder_Start(p, u, items) /\ UNCHANGED race
    \/ \E p \in Slots : createOrder_FindProduct(p)
    \/ \E p \in Slots : createOrder_SaveProduct(p)
    \/ \E p \in Slots : createOrder_Create(p)
    \/ \E p \in Slots, o \in DOMAIN orders :
          cancelOrder_Start(p, orders[o].user, o) /\ UNCHANGED race
    \/ \E p \in Slots : cancelOrder_FindProduct(p)
    \/ \E p \in Slots : cancelOrder_SaveProduct(p)
    \/ \E p \in Slots : cancelOrder_SaveOrder(p)

SpecStock == Init /\ [][StockNext]_vars

\* a step of the request in slot p that is not its first: the request has
\* been received and goes on from one await to the next
RaceStep(p) ==
    \/ Race_PollAnswer(p)
    \/ verifyPayment_LoadOrder(p)
    \/ verifyPayment_SaveOrder(p)
    \/ verifyPayment_SavePayment(p)
    \/ handleSuccessfulCharge_SavePayment(p)
    \/ handleSuccessfulCharge_LoadOrder(p)
    \/ handleSuccessfulCharge_SaveOrder(p)

\* the race, when every request that has been received runs to its end: the
\* event loop resumes a handler once the operation it awaits has completed,
\* whatever the outcome of the operation. Nothing makes the gateway answer
\* the poll with the charge, and nothing makes a request arrive.
SpecRaceFair ==
    RaceInit /\ [][RaceNext]_vars /\ \A p \in Slots : WF_vars(RaceStep(p))

----------------------------------------------------------------------------
(* A payment whose order is gone *)

\* the server has started, and there is a pending payment whose order is no
\* longer in the Order collection (no handler removes an order: it has been
\* removed from the database by other means)
OrphanInit ==
    \E t \in 0..MaxTime :
       /\ orders = [o \in OrderIds |-> NewOrder(o)]
       /\ payments = <<NewPayment(OrderUser(MissingOrder), MissingOrder,
                                  MakeReference(MissingOrder, t))>>
       /\ now = t
       /\ proc = [p \in Slots |-> Idle]
       /\ last = NoResponse
       /\ race = NoRace
       /\ stock = StockAtStart
       /\ env \in NodeEnvs
       /\ budget = MaxRequests

SpecOrphan == OrphanInit /\ [][Next]_vars

----------------------------------------------------------------------------
(* Vocabulary of the properties *)

Rows == 1..Len(payments)

\* slot p takes a step
StepBy(p) == proc'[p] # proc[p]

\* a request is received in slot p with this step
ReceivedBy(p) == IsIdle(p) /\ budget' = budget - 1

\* the step is the first of a webhook request received in slot p
WebhookReceivedBy(p) ==
    /\ ReceivedBy(p)
    /\ last'.op = "handleWebhook" \/ proc'[p].op \in WebhookEvents

\* every body a webhook request can have
AllWebhookBodies ==
    UNION { WebhookBodies(ref, ev) : ref \in KnownRefs, ev \in WebhookEvents }

\* the request in slot p ends with this step
Completes(p) == ~IsIdle(p) /\ proc'[p] = Idle

\* the request in slot p carries a success verdict for a payment it has loaded
ApplyingSuccess(p) ==
    /\ proc[p].op \in {"verifyPayment", "charge.success"}
    /\ proc[p].data # None
    /\ Val(proc[p].data).status = "success"

\* the fields C2 speaks of
Resolution(pdoc) == <<pdoc.status, pdoc.amount, pdoc.paidAt>>

\* the paid fields of an order
PaidFields(odoc) == <<odoc.isPaid, odoc.paidAt>>

TerminalStatuses == {"success", "failed", "abandoned"}

\* the rows of an order that are pending or successful
ActiveRows(o) ==
    {i \in Rows : payments[i].order = o /\ payments[i].status \in {"pending", "success"}}

----------------------------------------------------------------------------
(* C1 - exactly-once application of a success verdict *)

\* C1: a request that applies a success verdict to a payment ends with the
\* payment in status success and the order paid (the one pending->success
\* transition has happened), and when the payment is already success and the
\* order already paid, its steps change neither the status nor the order's
\* paid and paidAt.
C1_ExactlyOnceSuccess ==
    [][\A p \in Slots :
          (ApplyingSuccess(p) /\ StepBy(p)) =>
             LET i == proc[p].pidx
                 o == proc[p].orderId
             IN  /\ Completes(p) =>
                       payments'[i].status = "success" /\ orders'[o].isPaid
                 /\ (payments[i].status = "success" /\ orders[o].isPaid) =>
                       /\ payments'[i].status = "success"
                       /\ PaidFields(orders'[o]) = PaidFields(orders[o])]_vars

----------------------------------------------------------------------------
(* C2 - terminal immutability *)

\* C2: no step changes the status, the amount or the paidAt of a Payment whose
\* status is success, failed or abandoned.
C2_TerminalImmutable ==
    [][\A i \in Rows :
          payments[i].status \in TerminalStatuses =>
             Resolution(payments'[i]) = Resolution(payments[i])]_vars

----------------------------------------------------------------------------
(* C3 - one active payment per order *)

\* C3: in every reachable state each order has at most one Payment whose
\* status is pending or success.
C3_OneActivePaymentPerOrder ==
    \A o \in OrderIds : Cardinality(ActiveRows(o)) <= 1

----------------------------------------------------------------------------
(* C4 - convergence of the race of a poll and a notification *)

\* the poll and the notification of the race have both run to their end
RaceOver == race.poll /\ race.hook /\ \A p \in Slots : IsIdle(p)

\* the payment and the order the race is about, as they were before it
RaceReference == Val(race.verdict).reference
RacePayment == NewPayment(OrderUser(RaceReference[2]), RaceReference[2], RaceReference)
RaceOrder == NewOrder(RaceReference[2])

\* the payment and the order after the notification alone: the payment is
\* saved first, and the order after it
AfterNotificationAlone ==
    LET d == Val(race.verdict)
        cur == SuccessAssign(RacePayment, d)
    IN  IF PaymentValid(cur)
        THEN <<SaveDoc(RacePayment, RacePayment, cur),
               SaveDoc(RaceOrder, RaceOrder, OrderPaidAssign(RaceOrder, RaceReference, d))>>
        ELSE <<RacePayment, RaceOrder>>

\* the payment and the order after the poll alone: the order is saved first,
\* and the payment after it
AfterPollAlone ==
    LET d == Val(race.verdict)
        cur == VerifyAssign(RacePayment, d)
    IN  <<IF PaymentValid(cur) THEN SaveDoc(RacePayment, RacePayment, cur)
                               ELSE RacePayment,
          SaveDoc(RaceOrder, RaceOrder, OrderPaidAssign(RaceOrder, RaceReference, d))>>

\* the payment and the order of the race, as they are
RaceState == <<payments[1], orders[RaceReference[2]]>>

\* C4: when a poll and a charge.success notification for the same reference
\* run concurrently with the same success verdict, then after both have ended,
\* whatever the interleaving of their loads and saves, the payment and the
\* order are as after the notification alone and as after the poll alone, and
\* nothing is half written: the order is paid exactly if the payment is
\* successful.
C4_RaceConvergence ==
    RaceOver =>
       /\ RaceState = AfterNotificationAlone
       /\ RaceState = AfterPollAlone
       /\ orders[RaceReference[2]].isPaid <=> (payments[1].status = "success")

----------------------------------------------------------------------------
(* C5 - a paid order has a successful payment *)

\* C5: in every reachable state an order with isPaid has paidAt set and a
\* Payment in status success references it.
C5_PaidOrderHasSuccessPayment ==
    \A o \in OrderIds :
       orders[o].isPaid =>
          /\ orders[o].paidAt # None
          /\ \E i \in Rows : payments[i].order = o /\ payments[i].status = "success"

----------------------------------------------------------------------------
(* C6 - the signature gate *)

\* a change of neither collection
NoStateChange == UNCHANGED <<orders, payments>>

\* the signature header is missing or is not the HMAC of the body
BadSignature(signature, body) == signature # Some(Hmac(WebhookSecret, body))

\* C6: a webhook request whose signature header is missing or is
\* not the HMAC-SHA512 of its body is answered 400 Invalid signature and
\* changes no Payment and no Order, whatever its event and its payload.
C6_InvalidSignatureMessage ==
    [][\A p \in Slots : WebhookReceivedBy(p) =>
          \A body \in AllWebhookBodies : \A sig \in Signatures(body) :
                (BadSignature(sig, body) /\ handleWebhook_Start(p, body, sig)) =>
                   /\ last' = Response("handleWebhook", 400, "Invalid signature",
                                       None, FALSE)
                   /\ NoStateChange]_vars

----------------------------------------------------------------------------
(* C7 - idempotent initialization *)

\* the order's only pending or successful payment is the pending one that the
\* last response, a 201 of initializePayment, reported
JustInitialized(o) ==
    /\ last.op = "initializePayment" /\ last.code = 201
    /\ \E i \in Rows :
          /\ payments[i].reference = Val(last.ref)
          /\ payments[i].order = o
          /\ ActiveRows(o) = {i}
          /\ payments[i].status = "pending"

\* C7: the initializePayment that creates the Payment row answers 201 with the
\* row's reference after one gateway call; an initializePayment for the same
\* order that looks the payment up right after, the payment still pending,
\* answers 200 with the same reference, calls no gateway, and leaves the one
\* row as it is.
C7_IdempotentInitialization ==
    [][\A p \in Slots :
          /\ (proc[p].pc = "ip_create" /\ StepBy(p) /\ last'.code = 201) =>
                /\ Len(payments') = Len(payments) + 1
                /\ payments'[Len(payments')].reference = Val(last'.ref)
                /\ payments'[Len(payments')].status = "pending"
                /\ last'.gateway
          /\ (proc[p].pc = "ip_find" /\ StepBy(p) /\ JustInitialized(proc[p].orderId)) =>
                /\ last' = Response("initializePayment", 200,
                                    "Payment already initialized", last.ref, FALSE)
                /\ proc'[p] = Idle
                /\ NoStateChange]_vars

\* the second initializePayment has answered 200 with the reference of the one
\* row, which is still pending
C7_Witness ==
    /\ last.op = "initializePayment" /\ last.code = 200 /\ ~last.gateway
    /\ Len(payments) = 1
    /\ payments[1].status = "pending"
    /\ last.ref = Some(payments[1].reference)

----------------------------------------------------------------------------
(* C8 - ownership of the payment *)

\* C8: verifyPayment by a user who does not own the Payment answers 403
\* whatever the payment's status, calls no gateway and changes no Payment and
\* no Order.
C8_OwnershipEnforced ==
    [][\A p \in Slots : ReceivedBy(p) =>
          \A u \in Users, ref \in KnownRefs :
             LET i == FindByReference(ref)
             IN  (i # 0 /\ payments[i].user # u /\ verifyPayment_Start(p, u, ref)) =>
                    /\ last' = Response("verifyPayment", 403,
                                        "Not authorized to verify this payment",
                                        None, FALSE)
                    /\ proc'[p] = Idle
                    /\ NoStateChange]_vars

----------------------------------------------------------------------------
(* C9 - initialization of a paid order *)

\* an order has a successful payment
HasSuccessPayment(o) ==
    \E i \in Rows : payments[i].order = o /\ payments[i].status = "success"

\* the two answers that say the order is already paid
AlreadyPaidMessages ==
    {"Order is already paid", "Payment already completed for this order"}

\* the request in slot p ends with this step, refused as already paid, without
\* a gateway call and without a new row
RefusedAlreadyPaid(p) ==
    /\ proc'[p] = Idle
    /\ last'.op = "initializePayment" /\ last'.code = 400
    /\ last'.message \in AlreadyPaidMessages
    /\ ~last'.gateway
    /\ NoStateChange

\* C9: initializePayment by the owner of an order that is paid when the order
\* is read, or that has a successful Payment when its payments are looked up,
\* fails as already paid, calls no gateway and creates no row.
C9_PaidOrderRefused ==
    [][/\ \A p \in Slots, u \in Users, o \in OrderIds :
             (/\ ReceivedBy(p)
              /\ orders[o].isPaid
              /\ orders[o].user = u
              /\ initializePayment_Start(p, u, o)) => RefusedAlreadyPaid(p)
       /\ \A p \in Slots :
             (/\ proc[p].pc = "ip_find"
              /\ StepBy(p)
              /\ HasSuccessPayment(proc[p].orderId)) => RefusedAlreadyPaid(p)]_vars

----------------------------------------------------------------------------
(* C10 - all-or-nothing initialization *)

\* C10: when the gateway call of initializePayment throws or returns a
\* response whose status is false, the request ends with an error (500) and
\* no Payment and no Order has changed; a Payment row is added only by a
\* request whose gateway call was accepted.
C10_AllOrNothingInitialization ==
    [][/\ \A p \in Slots, outcome \in GatewayOutcomes :
             (/\ proc[p].pc = "ip_gateway"
              /\ outcome # "ok"
              /\ initializePayment_Gateway(p, outcome)) =>
                /\ proc'[p] = Idle
                /\ last'.op = "initializePayment" /\ last'.code = 500
                /\ NoStateChange
       /\ Len(payments') > Len(payments) =>
             \E p \in Slots :
                /\ proc[p].pc = "ip_create" /\ proc'[p] = Idle
                /\ last'.code = 201 /\ last'.gateway]_vars

----------------------------------------------------------------------------
(* C11 - a gateway error is not a verdict *)

\* the answer is the failure of a verifyPayment at the gateway: status 500,
\* after the call of the gateway
VerificationFailed(resp) ==
    resp.op = "verifyPayment" /\ resp.code = 500 /\ resp.gateway

\* C11: when the gateway call of verifyPayment throws or returns a response
\* whose status is false, the request ends with the error of a failed
\* verification (500), and no Payment and no Order has changed: the Payment
\* is not marked failed.
C11_GatewayErrorIsNoVerdict ==
    [][\A p \in Slots : \A answer \in PendingVerifyAnswers(p) :
          (answer.outcome # "ok" /\ verifyPayment_Gateway(p, answer)) =>
             /\ proc'[p] = Idle
             /\ VerificationFailed(last')
             /\ NoStateChange]_vars

----------------------------------------------------------------------------
(* C12 - a verified webhook is always acknowledged *)

\* the request in slot p is a webhook request that has passed the payload
\* validation and the signature check and is in one of the charge handlers
InChargeHandler(p) == proc[p].op \in {"charge.success", "charge.failed"}

\* C12: a webhook request whose payload is well formed and whose signature
\* verifies is answered 200 Webhook processed, whatever happens while it is
\* processed: at once when it ends with its first step, and at the end of its
\* charge handler otherwise, also when a save of the handler fails.
C12_VerifiedWebhookAcknowledged ==
    [][\A p \in Slots :
          /\ (InChargeHandler(p) /\ Completes(p)) => last' = Processed
          /\ WebhookReceivedBy(p) =>
                \A body \in AllWebhookBodies :
                   (/\ validateWebhook(body)
                    /\ handleWebhook_Start(p, body, Some(Hmac(WebhookSecret, body)))
                    /\ proc'[p] = Idle) => last' = Processed]_vars

----------------------------------------------------------------------------
(* C13 - a verdict for an unknown reference *)

\* no Payment has this reference
NoPaymentWith(ref) == \A i \in Rows : payments[i].reference # ref

\* C13: a request that names a reference of no Payment changes no Payment and
\* no Order and creates no Payment: verifyPayment answers 404 Payment not
\* found, and a well-formed, correctly signed charge.success or charge.failed
\* webhook is acknowledged with 200 Webhook processed.
C13_UnknownReferenceNoChange ==
    [][\A p \in Slots : ReceivedBy(p) =>
          \A ref \in KnownRefs : NoPaymentWith(ref) =>
             /\ \A u \in Users :
                   verifyPayment_Start(p, u, ref) =>
                      /\ proc'[p] = Idle
                      /\ last' = Response("verifyPayment", 404, "Payment not found",
                                          None, FALSE)
                      /\ NoStateChange
             /\ \A ev \in {"charge.success", "charge.failed"} :
                   \A body \in WebhookBodies(ref, ev) :
                      (/\ validateWebhook(body)
                       /\ handleWebhook_Start(p, body, Some(Hmac(WebhookSecret, body)))) =>
                         /\ proc'[p] = Idle
                         /\ last' = Processed
                         /\ NoStateChange]_vars

----------------------------------------------------------------------------
(* C14 - the end-to-end scenario *)

\* no request is in flight
Quiet == \A p \in Slots : IsIdle(p)

\* the success verdicts the gateway can give for a reference
SuccessVerdicts(ref) == { SuccessData(ref, c[1], c[2]) : c \in SuccessCases }

\* the answers of the gateway to a poll that carry a success verdict
PendingSuccessAnswers(p) ==
    IF proc[p].pc = "vp_gateway"
    THEN { [outcome |-> "ok", data |-> Some(d)] : d \in SuccessVerdicts(Val(proc[p].ref)) }
    ELSE {}

\* the requests of the scenario, one after the other: the owner of an order
\* initializes its payment, and a success verdict for the payment's reference
\* is applied by the owner's poll or by a signed charge.success notification
ScenarioNext ==
    \/ \E p \in Slots, o \in OrderIds :
          Quiet /\ initializePayment_Start(p, OrderUser(o), o) /\ UNCHANGED race
    \/ \E p \in Slots, t \in ClockReadings : initializePayment_Find(p, t)
    \/ \E p \in Slots : initializePayment_Gateway(p, "ok")
    \/ \E p \in Slots : initializePayment_Create(p)
    \/ \E p \in Slots, i \in Rows :
          /\ Quiet
          /\ verifyPayment_Start(p, payments[i].user, payments[i].reference)
          /\ UNCHANGED race
    \/ \E p \in Slots : \E answer \in PendingSuccessAnswers(p) :
          verifyPayment_Gateway(p, answer)
    \/ \E p \in Slots : verifyPayment_LoadOrder(p)
    \/ \E p \in Slots : verifyPayment_SaveOrder(p)
    \/ \E p \in Slots : verifyPayment_SavePayment(p)
    \/ \E p \in Slots, i \in Rows :
          \E d \in SuccessVerdicts(payments[i].reference) :
             LET body == [event |-> "charge.success", data |-> Some(d)]
             IN  /\ Quiet
                 /\ handleWebhook_Start(p, body, Some(Hmac(WebhookSecret, body)))
                 /\ UNCHANGED race
    \/ \E p \in Slots : handleSuccessfulCharge_SavePayment(p)
    \/ \E p \in Slots : handleSuccessfulCharge_LoadOrder(p)
    \/ \E p \in Slots : handleSuccessfulCharge_SaveOrder(p)

SpecScenario == Init /\ [][ScenarioNext]_vars

\* C14: in the scenario, (1) the initializePayment that reaches Payment.create
\* adds a pending Payment of the order and of its owner whose reference
\* carries the order's id; (2) the request that applies a success verdict with
\* paid_at = T ends with the Payment in status success and the order paid with
\* paidAt = T; (3) an initializePayment by the owner of an order that is paid
\* is refused as already paid and creates no Payment.
C14_EndToEndScenario ==
    [][\A p \in Slots :
          /\ (proc[p].pc = "ip_create" /\ StepBy(p)) =>
                /\ Len(payments') = Len(payments) + 1
                /\ LET row == payments'[Len(payments')]
                   IN  /\ row.status = "pending"
                       /\ row.order = proc[p].orderId
                       /\ row.user = OrderUser(proc[p].orderId)
                       /\ row.reference[2] = proc[p].orderId
                /\ last'.code = 201 /\ last'.ref = proc[p].ref
          /\ (ApplyingSuccess(p) /\ Completes(p)) =>
                /\ payments'[proc[p].pidx].status = "success"
                /\ orders'[proc[p].orderId].isPaid
                /\ orders'[proc[p].orderId].paidAt =
                      Some(NewDate(Val(Val(proc[p].data).paid_at)))
          /\ ReceivedBy(p) =>
                \A o \in OrderIds :
                   (/\ orders[o].isPaid
                    /\ initializePayment_Start(p, OrderUser(o), o)) =>
                      RefusedAlreadyPaid(p)]_vars

----------------------------------------------------------------------------
(* C15 - a failed verdict touches the payment only *)

\* the request in slot p carries a failed verdict for a payment it has loaded:
\* a poll the gateway answered with a status other than success, or a
\* charge.failed notification
ApplyingFailure(p) ==
    /\ proc[p].data # None
    /\ \/ proc[p].op = "charge.failed"
       \/ proc[p].op = "verifyPayment" /\ Val(proc[p].data).status # "success"

\* C15: no step of a request that applies a failed verdict changes an Order:
\* the referenced order and every other order keep all their fields, so an
\* unpaid order stays unpaid; the only document the request writes is the
\* Payment it loaded.
C15_FailedVerdictPaymentOnly ==
    [][\A p \in Slots :
          (ApplyingFailure(p) /\ StepBy(p)) =>
             /\ orders' = orders
             /\ Len(payments') = Len(payments)
             /\ \A i \in Rows : i # proc[p].pidx => payments'[i] = payments[i]]_vars

\* a poll has marked the payment failed, and the order is as it was placed
C15_Witness ==
    /\ last = Response("verifyPayment", 200, "Payment failed", None, TRUE)
    /\ \E i \in Rows :
          /\ payments[i].status = "failed"
          /\ orders[payments[i].order] = NewOrder(payments[i].order)

----------------------------------------------------------------------------
(* C16 - references are unique and never change *)

\* C16: after every step no two Payment rows have the same reference, no row
\* has been removed, and every row has the reference it had before the step:
\* a reference is neither rewritten nor given to a second row, also when two
\* initializations build their references from the same clock reading.
C16_ReferenceUniqueAndStable ==
    [][/\ \A i, j \in 1..Len(payments') :
             payments'[i].reference = payments'[j].reference => i = j
       /\ Len(payments') >= Len(payments)
       /\ \A i \in Rows : payments'[i].reference = payments[i].reference]_vars

\* two initializations built the same reference: the first has its row, and
\* the insert of the second has been rejected
C16_Witness ==
    /\ last.op = "initializePayment" /\ last.message = "Duplicate field value"
    /\ Len(payments) = 1
    /\ payments[1].status = "pending"

----------------------------------------------------------------------------
(* C17 - a cancelled order has had its stock restored exactly once *)

\* the quantity of a product in a list of line items
RECURSIVE Quantity(_, _)
Quantity(items, prod) ==
    IF items = <<>> THEN 0
    ELSE (IF Head(items).product = prod THEN Head(items).quantity ELSE 0)
         + Quantity(Tail(items), prod)

\* C17: in every state, when an order placed before the start is cancelled,
\* the stock of every product is its stock at the start plus the quantity of
\* the product in the order: the stock of the order's line items has been
\* restored, and restored once.
C17_CancelledRestoredOnce ==
    \A o \in OrderIds :
       orders[o].status = "cancelled" =>
          \A prod \in Products :
             stock[prod] = StockAtStart[prod] + Quantity(orders[o].orderItems, prod)

----------------------------------------------------------------------------
(* C18 - payments do not touch the stock *)

\* the handlers of the payment controller, as the requests in flight name them
PaymentOps == {"initializePayment", "verifyPayment", "charge.success", "charge.failed"}

\* the step is a product.save() of slot p: the one of createOrder, which
\* writes the stock it loaded less the quantity of the item, or the one of
\* cancelOrder, which writes the stock it loaded plus the quantity
StockWrite(p) ==
    /\ StepBy(p)
    /\ \/ /\ proc[p].pc = "co_saveproduct"
          /\ LET item == proc[p].items[proc[p].k]
             IN  stock' = [stock EXCEPT ![item.product] =
                               Val(proc[p].sload) - item.quantity]
       \/ /\ proc[p].pc = "ca_saveproduct"
          /\ LET item == Val(proc[p].oload).orderItems[proc[p].k]
             IN  stock' = [stock EXCEPT ![item.product] =
                               Val(proc[p].sload) + item.quantity]

\* C18 (as stated): no step of initializePayment, of verifyPayment or of
\* handleWebhook and its charge handlers changes the stock of a product, and
\* no request changes it with the step that receives it; the stock changes
\* only with the product.save() of createOrder, a decrement by the item's
\* quantity, and with the product.save() of cancelOrder, a restore by the
\* item's quantity.
C18_StockOnlyByOrders ==
    [][/\ \A p \in Slots :
             (proc[p].op \in PaymentOps /\ StepBy(p)) => stock' = stock
       /\ \A p \in Slots : ReceivedBy(p) => stock' = stock
       /\ stock' # stock => \E p \in Slots : StockWrite(p)]_vars

\* the step is a request of the administrator on a product, createProduct or
\* updateProduct, received and answered
ProductWrite(p) ==
    /\ ReceivedBy(p)
    /\ proc'[p] = Idle
    /\ last'.op \in {"createProduct", "updateProduct"}

\* C18 (amended): no step of initializePayment, of verifyPayment or of
\* handleWebhook and its charge handlers changes the stock of a product, and
\* neither does the receipt of a request for an order or a payment; the stock
\* changes only with the product.save() of createOrder, a decrement by the
\* item's quantity, with the product.save() of cancelOrder, a restore by the
\* item's quantity, and with a product request of the administrator.
C18_PaymentsLeaveStock ==
    [][/\ \A p \in Slots :
             (proc[p].op \in PaymentOps /\ StepBy(p)) => stock' = stock
       /\ \A p \in Slots :
             (ReceivedBy(p) /\ ~ProductWrite(p)) => stock' = stock
       /\ stock' # stock =>
             \E p \in Slots : StockWrite(p) \/ ProductWrite(p)]_vars

\* an order has been created, which took one p1 from the stock, and a payment
\* has been resolved as successful and its order marked paid: the stock is
\* the stock at the start less that one item
C18_Witness ==
    /\ \E i \in Rows :
          payments[i].status = "success" /\ orders[payments[i].order].isPaid
    /\ \E o \in DOMAIN orders \ OrderIds : orders[o].status = "pending"
    /\ stock = [StockAtStart EXCEPT !["p1"] = 1]

----------------------------------------------------------------------------
(* C19 - events without a charge handler *)

\* the events handleWebhook has no charge handler for
OtherEvents == WebhookEvents \ {"charge.success", "charge.failed"}

\* C19: a well-formed, correctly signed webhook request whose event is neither
\* charge.success nor charge.failed (transfer.success, transfer.failed, an
\* event the switch does not name) is answered 200 Webhook processed with
\* its first step, and no Payment and no Order has changed.
C19_OtherEventsIgnored ==
    [][\A p \in Slots : ReceivedBy(p) =>
          \A body \in AllWebhookBodies :
             (/\ body.event \in OtherEvents
              /\ validateWebhook(body)
              /\ handleWebhook_Start(p, body, Some(Hmac(WebhookSecret, body)))) =>
                /\ proc'[p] = Idle
                /\ last' = Processed
                /\ NoStateChange]_vars

\* a webhook has been acknowledged and the one payment is as it was created
C19_Witness ==
    /\ last = Processed
    /\ Len(payments) = 1
    /\ payments[1] = NewPayment(payments[1].user, payments[1].order,
                                payments[1].reference)
    /\ \A o \in OrderIds : orders[o] = NewOrder(o)

----------------------------------------------------------------------------
(* C20 - a poll of a terminal payment *)

\* C20: verifyPayment by the owner of a Payment whose status is success,
\* failed or abandoned answers 200 with its first step, without a gateway
\* call, and no Payment and no Order has changed.
C20_TerminalPollReturnsStored ==
    [][\A p \in Slots : ReceivedBy(p) =>
          \A i \in Rows :
             (/\ payments[i].status \in TerminalStatuses
              /\ verifyPayment_Start(p, payments[i].user, payments[i].reference)) =>
                /\ proc'[p] = Idle
                /\ last'.op = "verifyPayment" /\ last'.code = 200
                /\ ~last'.gateway
                /\ NoStateChange]_vars

----------------------------------------------------------------------------
(* C21 - atomicity of a success resolution *)

\* the payment of the race is successful exactly if its order is paid: the
\* state before the two writes of a resolution, or the state after both
RaceAllOrNothing ==
    (payments[1].status = "success") <=> orders[RaceReference[2]].isPaid

\* C21: a request on the reference that is received while the other request
\* resolves the payment as successful finds either the payment pending and
\* the order unpaid, or the payment successful and the order paid, never
\* one of the two writes without the other.
C21_AtomicResolution ==
    [][\A q \in Slots : ReceivedBy(q) => RaceAllOrNothing]_vars

----------------------------------------------------------------------------
(* C22 - a success verdict for an order that is already paid *)

\* the fields of an order a resolution writes besides isPaid
PaidSnapshot(odoc) ==
    <<odoc.paidAt, odoc.paymentMethod, odoc.paystackReference, odoc.paymentResult>>

\* C22: no step of a request that applies a success verdict to a pending
\* Payment (a poll, whose payment is saved last, or a charge.success
\* notification) changes the paidAt, the payment method, the payment
\* reference or the payment result of an order that is already paid.
C22_PaidOrderNotRewritten ==
    [][\A p \in Slots :
          (/\ ApplyingSuccess(p) /\ StepBy(p)
           /\ proc[p].op = "verifyPayment" => payments[proc[p].pidx].status = "pending"
           /\ proc[p].orderId \in DOMAIN orders
           /\ orders[proc[p].orderId].isPaid) =>
             PaidSnapshot(orders'[proc[p].orderId]) =
                PaidSnapshot(orders[proc[p].orderId])]_vars

----------------------------------------------------------------------------
(* C23 - equivalence of the two paths *)

\* the payment and the order after verifyPayment has resolved the payment
\* with the verdict d, alone: the order is saved first, and the payment
\* after it; a payment that is already successful is answered at once
ResolveByPoll(pdoc, odoc, d) ==
    LET cur == VerifyAssign(pdoc, d)
    IN  IF AlreadyVerified(pdoc) THEN <<pdoc, odoc>>
        ELSE <<IF PaymentValid(cur) THEN SaveDoc(pdoc, pdoc, cur) ELSE pdoc,
               IF ChargeSucceeded(d) /\ VerifyOrderGuard(odoc)
               THEN SaveDoc(odoc, odoc, OrderPaidAssign(odoc, pdoc.reference, d))
               ELSE odoc>>

\* the payment and the order after the notification of the verdict d, alone:
\* charge.success saves the payment first and the order after it,
\* charge.failed saves the payment
ResolveByWebhook(pdoc, odoc, d) ==
    LET cur == IF d.status = "success" THEN SuccessAssign(pdoc, d)
                                       ELSE FailedAssign(pdoc, d)
    IN  IF ~PaymentValid(cur) THEN <<pdoc, odoc>>
        ELSE <<SaveDoc(pdoc, pdoc, cur),
               IF d.status = "success" /\ WebhookOrderGuard(odoc)
               THEN SaveDoc(odoc, odoc, OrderPaidAssign(odoc, pdoc.reference, d))
               ELSE odoc>>

\* the fields of a payment C23 speaks of
PaymentOutcome(pdoc) ==
    <<pdoc.status, pdoc.channel, pdoc.paymentMethod, pdoc.gatewayResponse, pdoc.paidAt>>

\* the fields of the two documents C23 speaks of
PathOutcome(pair) == <<PaymentOutcome(pair[1]), pair[2]>>

\* C23: for every pending Payment, its order and every verdict the gateway
\* can give for it (success or not, with its channel, message and paid_at),
\* resolving through verifyPayment and resolving through the webhook leave
\* the same Payment fields and the same Order, and so do the two one after
\* the other, in either order.
C23_PathEquivalence ==
    \A i \in Rows :
       (payments[i].status = "pending" /\ payments[i].order \in DOMAIN orders) =>
          \A d \in VerifyData(payments[i].reference) :
             LET pdoc == payments[i]
                 odoc == orders[pdoc.order]
                 poll == ResolveByPoll(pdoc, odoc, d)
                 hook == ResolveByWebhook(pdoc, odoc, d)
             IN  /\ PathOutcome(poll) = PathOutcome(hook)
                 /\ PathOutcome(ResolveByWebhook(poll[1], poll[2], d)) =
                       PathOutcome(ResolveByPoll(hook[1], hook[2], d))

----------------------------------------------------------------------------
(* C24 - a success verdict for a payment whose order is gone *)

\* C24: a request that applies a success verdict to a Payment whose order is
\* not in the Order collection changes no Order, saves the Payment, when it
\* is pending, in status success with the verdict's paidAt, and ends without
\* an error (200).
C24_MissingOrderTolerated ==
    [][\A p \in Slots :
          (/\ ApplyingSuccess(p) /\ StepBy(p)
           /\ proc[p].orderId \notin DOMAIN orders) =>
             /\ orders' = orders
             /\ (/\ proc[p].pc \in {"vp_savepayment", "hs_savepayment"}
                 /\ payments[proc[p].pidx].status = "pending") =>
                   /\ payments'[proc[p].pidx].status = "success"
                   /\ payments'[proc[p].pidx].paidAt =
                         Some(PaidAtDate(Val(proc[p].data)))
             /\ Completes(p) => last'.code = 200]_vars

----------------------------------------------------------------------------
(* C25 - liveness of reconciliation *)

\* a payment.save() of the race's verdict passes the schema validation:
\* persistence does not fail
PersistenceWorks ==
    /\ PaymentValid(SuccessAssign(RacePayment, Val(race.verdict)))
    /\ PaymentValid(VerifyAssign(RacePayment, Val(race.verdict)))

\* the payment of the race is successful and its order is paid
Reconciled ==
    payments[1].status = "success" /\ orders[RaceReference[2]].isPaid

\* C25 (as stated): when the charge of a pending Payment has succeeded at the
\* gateway and the owner's poll or the signed charge.success notification has
\* been received, then, every request received running to its end and the
\* saves not failing, the Payment is eventually successful and its order
\* paid.
C25_HandledThenReconciled ==
    ((race.poll \/ race.hook) /\ PersistenceWorks) ~> Reconciled

\* the gateway has answered the poll of the race with the charge
PollAnswered ==
    \E p \in Slots :
       proc[p].op = "verifyPayment" /\ proc[p].data = race.verdict

\* C25 (amended): when the charge of a pending Payment has succeeded at the
\* gateway and the signed charge.success notification has been received, or
\* the owner's poll has been received and the gateway has answered it with
\* the charge, then, every request received running to its end and the saves
\* not failing, the Payment is eventually successful and its order paid.
C25_EventuallyReconciled ==
    ((race.hook \/ PollAnswered) /\ PersistenceWorks) ~> Reconciled

\* the poll alone has been handled, the gateway answered it with the charge,
\* and the payment is successful and its order paid
C25_Witness ==
    /\ race.poll /\ ~race.hook
    /\ \A p \in Slots : IsIdle(p)
    /\ last.op = "verifyPayment" /\ last.code = 200
    /\ Reconciled

----------------------------------------------------------------------------
(* C26 - quiescent consistency of a payment and its order *)

\* C26: in every state where no payment request is in progress, every Payment
\* in status success whose order is in the Order collection references an
\* order with isPaid true, whatever the interleaving of the polls and the
\* notifications and whatever their verdicts.
C26_QuiescentConsistency ==
    Quiet =>
       \A i \in Rows :
          (payments[i].status = "success" /\ payments[i].order \in DOMAIN orders)
             => orders[payments[i].order].isPaid

\* no request is in progress, and a Payment made successful by a verdict of
\* the gateway references its order, which that verdict marked paid
C26_Witness ==
    /\ Quiet
    /\ \E i \in Rows :
          /\ payments[i].status = "success"
          /\ payments[i].order \in DOMAIN orders
          /\ orders[payments[i].order].isPaid
          /\ orders[payments[i].order].paystackReference =
                Some(payments[i].reference)

----------------------------------------------------------------------------
(* C27 - the paid flag of an order is monotone *)

\* C27: no step of any operation (initializePayment, verifyPayment, the
\* notifications, updateOrderStatus, cancelOrder, updateOrderToPaid) takes an
\* order whose isPaid is true to a state where it is false or the order is
\* gone.
C27_PaidMonotone ==
    [][\A o \in DOMAIN orders :
          orders[o].isPaid => (o \in DOMAIN orders' /\ orders'[o].isPaid)]_vars

\* an order paid whose status an administrator or a cancellation has since
\* written, nothing in progress
C27_Witness ==
    /\ Quiet
    /\ \E o \in DOMAIN orders :
          /\ orders[o].isPaid
          /\ orders[o].status # NewOrder(o).status

----------------------------------------------------------------------------
(* C28 - a cancelled order is never paid *)

\* the order is cancelled and not paid
CancelledUnpaid(o) ==
    o \in DOMAIN orders /\ orders[o].status = "cancelled" /\ ~orders[o].isPaid

\* initializePayment goes past its checks for order o in this step
InitializeAccepted(p, o) ==
    /\ ReceivedBy(p)
    /\ proc'[p].op = "initializePayment"
    /\ proc'[p].orderId = o

\* C28: an order that is cancelled and not paid is not marked paid by any
\* step (a success verdict of a poll or of a notification arriving after the
\* cancellation leaves isPaid false), and initializePayment is not accepted
\* for it.
C28_CancelledNeverPaid ==
    [][\A o \in DOMAIN orders :
          CancelledUnpaid(o) =>
             /\ ~orders'[o].isPaid
             /\ \A p \in Slots : ~InitializeAccepted(p, o)]_vars

----------------------------------------------------------------------------
(* C29 - createOrder is all or nothing with respect to stock *)

\* request p is the only request the server has received so far: the state
\* it was received in is the state the server started in
FirstRequest(p) == ~IsIdle(p) /\ budget = MaxRequests - 1

\* createOrder of request p ends in this step, at the checks of an item, with
\* the failure of a missing product (404) or of an insufficient stock (400)
CreateOrderFails(p) ==
    /\ proc[p].pc = "co_find"
    /\ Completes(p)

\* C29: when createOrder fails for a missing product or an insufficient
\* stock, no Order has been created and the stock of every product, the
\* products of the items checked before the failing one included, is what it
\* was when the request was received.
C29_CreateOrderAllOrNothing ==
    [][\A p \in Slots :
          (FirstRequest(p) /\ CreateOrderFails(p)) =>
             /\ DOMAIN orders' = OrderIds
             /\ stock' = StockAtStart]_vars

----------------------------------------------------------------------------
(* C30 - conservation of stock *)

\* the quantity of a product in the orders of S that are not cancelled
RECURSIVE Reserved(_, _)
Reserved(S, prod) ==
    IF S = {} THEN 0
    ELSE LET o == CHOOSE x \in S : TRUE
         IN  (IF orders[o].status # "cancelled"
              THEN Quantity(orders[o].orderItems, prod) ELSE 0)
             + Reserved(S \ {o}, prod)

\* the quantity of a product in the orders placed before the start
RECURSIVE PlacedAtStart(_, _)
PlacedAtStart(S, prod) ==
    IF S = {} THEN 0
    ELSE LET o == CHOOSE x \in S : TRUE
         IN  Quantity(ItemsOf(o), prod) + PlacedAtStart(S \ {o}, prod)

\* the stock of a product before any order was placed
InitialStock(prod) == StockAtStart[prod] + PlacedAtStart(OrderIds, prod)

\* the stock of a product is never negative
StockNeverNegative == \A prod \in Products : stock[prod] >= 0

\* C30: in every state where no request is in progress, the stock of each
\* product plus the quantity of the product in the orders that exist and are
\* not cancelled is the initial stock of the product; and the stock is never
\* negative, whatever the interleaving of createOrder and cancelOrder.
C30_StockConserved ==
    /\ StockNeverNegative
    /\ Quiet =>
          \A prod \in Products :
             stock[prod] + Reserved(DOMAIN orders, prod) = InitialStock(prod)

====
